---- MODULE Spec2Model ----
(***************************************************************************)
(* Model of src/app.py: a Flask application that authenticates users       *)
(* against a PostgreSQL "users" table (Flask-Login sessions) and proxies   *)
(* three read-only AMap operations behind @login_required.                 *)
(*                                                                         *)
(* One action per HTTP handler.  /register is split at the point where a   *)
(* second worker can interleave: after the existence SELECT and before the *)
(* INSERT ... COMMIT.  Every get_db_connection() call and every upstream   *)
(* HTTP call draws its outcome from the environment.                       *)
(***************************************************************************)
EXTENDS Integers, Sequences, FiniteSets, TLC

(* ------------------------------ bounds -------------------------------- *)
NumSessions == 2      \* browser cookies (transport identities)
NumWorkers == 2       \* requests to /register that can be in flight at once
MaxId == 3            \* values the SERIAL id sequence may hand out
MaxOpen == 2          \* connections that may stay open before /health is cut off

Sessions == 1..NumSessions
Workers == 1..NumWorkers

(* --------------------------- input domains ---------------------------- *)
\* request.form.get(k) / request.args.get(k) yield None for an absent field
None == "<None>"
Usernames == {"alice", "bob"}
Emails == {"a@x", "b@x"}
QueryValues == {None, "", "v"}

Form(method, username, email, password, confirm_password) ==
    [method |-> method, username |-> username, email |-> email,
     password |-> password, confirm_password |-> confirm_password]

\* POSTs to /login: a registered or an unknown name, with the password field
\* absent, empty, or one of two well-formed passwords; and the plain GET
LoginForms ==
    {Form("POST", u, None, p, None) :
        u \in Usernames \cup {"carol"}, p \in {None, "", "secret1", "secret2"}}
    \cup {Form("GET", None, None, None, None)}

\* POSTs to /register: every username/email pair with a well-formed password,
\* one form per validation rule that rejects, and the plain GET
RegisterForms ==
    {Form("POST", u, e, IF u = "alice" THEN "secret1" ELSE "secret2",
          IF u = "alice" THEN "secret1" ELSE "secret2") : u \in Usernames, e \in Emails}
    \cup {Form("POST", "", "a@x", "secret1", "secret1"),
          Form("POST", "alice", None, "secret1", "secret1"),
          Form("POST", "alice", "a@x", "", ""),
          Form("POST", "alice", "a@x", "secret1", "secret2"),
          Form("POST", "alice", "a@x", "abc", "abc"),
          Form("GET", None, None, None, None)}

\* Python truthiness of an optional string
Truthy(x) == x # None /\ x # ""

\* request.args.get(key, '')
args_get(v) == IF v = None THEN "" ELSE v

(* ---------------------------- program constants ----------------------- *)
MinPasswordLen == 6
BadRequest == 400
OK == 200
Found == 302

(* ------------------------------ messages ------------------------------ *)
MSG_LOGIN_REQUIRED == "please log in to access this page"   \* login_manager.login_message
MSG_DB_FAILED == "database connection failed"
MSG_BAD_CREDENTIALS == "wrong username or password"
MSG_LOGIN_FAILED == "login failed: 'NoneType' object has no attribute 'encode'"
MSG_FILL_ALL == "please fill in all fields"
MSG_CONFIRM_MISMATCH == "password confirmation does not match"
MSG_PASSWORD_SHORT == "password must be at least 6 characters"
MSG_EXISTS == "username or email already exists"
MSG_REGISTERED == "registered, please log in"
MSG_REGISTER_FAILED == "registration failed: duplicate key value violates unique constraint"
MSG_LOGGED_OUT == "you have logged out"
ERR_ADDRESS == "address parameter missing"
ERR_COORDS == "coordinate parameter missing"
ERR_PARAMS == "parameter missing"
ERR_NO_KEY == "AMap API configuration missing"
NoText == "-"

(* ------------------------------ responses ----------------------------- *)
\* body: "login.html" | "register.html" | "->login" | "->index" | "json" | "fault"
Response(code, body, flash, success, error) ==
    [code |-> code, body |-> body, flash |-> flash, success |-> success, error |-> error]

render_template(page, flash) == Response(OK, page, flash, NoText, NoText)
redirect(target, flash) == Response(Found, target, flash, NoText, NoText)
ParamError(msg) == Response(BadRequest, "json", NoText, NoText, msg)
Failure(msg) == Response(OK, "json", NoText, "false", msg)
Success == Response(OK, "json", NoText, "true", NoText)
\* login_manager.unauthorized() with login_view = 'login'
unauthorized == redirect("->login", MSG_LOGIN_REQUIRED)

\* users, nextId: the users table and its SERIAL sequence
\* session: the user id each cookie carries; pending: /register requests between
\* their SELECT and their INSERT; openConns: open database connections
\* last: the request completed last
\* cred, registered: history kept for the properties (whose credentials were
\* verified on a cookie since its last logout; who registered with what password)
VARIABLES users, nextId, session, pending, openConns, AMAP_SERVICE_KEY, last, cred,
          registered

vars == <<users, nextId, session, pending, openConns, AMAP_SERVICE_KEY, last, cred,
          registered>>

(* ------------------------------ the store ----------------------------- *)
\* werkzeug.security.generate_password_hash: "method$salt$digest"
generate_password_hash(password, salt) ==
    [method |-> "pbkdf2:sha256", salt |-> salt, digest |-> <<"H", salt, password>>]

\* a check that hashes with a salt of its own instead of the stored one
check_password_hash_fresh_salt(pwhash, password) ==
    IF password = None THEN "raise"
    ELSE IF generate_password_hash(password, "s0").digest = pwhash.digest
         THEN "true" ELSE "false"

\* werkzeug.security.check_password_hash: re-hashes password.encode() with the
\* stored salt; a None password has no encode() and raises AttributeError
check_password_hash(pwhash, password) ==
    IF password = None THEN "raise"
    ELSE IF generate_password_hash(password, pwhash.salt).digest = pwhash.digest
         THEN "true" ELSE "false"

\* psycopg2.connect(**DB_CONFIG): a connection, or None when it raises
get_db_connection(db) == db # "down"

\* cur.fetchone(): one row of the result, or nothing
fetchone(rows) == IF rows = {} THEN {} ELSE {CHOOSE r \in rows : TRUE}

\* SELECT id, username, email FROM users WHERE id = %s
find_by_id(user_id) == {r \in users : r.id = user_id}

\* SELECT id, username, email, password_hash FROM users WHERE username = %s
find_by_username(username) == {r \in users : r.username = username}

\* the existence check with AND in place of OR
find_by_username_and_email(username, email) ==
    {r \in users : r.username = username /\ r.email = email}

\* SELECT id FROM users WHERE username = %s OR email = %s
find_by_username_or_email(username, email) ==
    {r \in users : r.username = username \/ r.email = email}

\* username VARCHAR(80) UNIQUE NOT NULL, email VARCHAR(120) UNIQUE NOT NULL
UniqueViolation(username, email) ==
    \E r \in users : r.username = username \/ r.email = email

\* the outcome of one database round trip opened by a handler
\* ("none" stands for a round trip the handler never starts)
DbOutcomes == {"ok", "down", "error"}
ConnOutcomes == {"ok", "down"}
NoConn == "none"

(* ------------------------------ sessions ------------------------------ *)
Anonymous == 0

\* a loader that trusts the cookie when the table cannot be read
load_user_trusting(user_id, db) ==
    IF ~get_db_connection(db)
    THEN [user |-> {[id |-> user_id, username |-> "", email |-> ""]},
          acquired |-> 0, released |-> 0]
    ELSE IF db = "error"
         THEN [user |-> {}, acquired |-> 1, released |-> 1]
         ELSE [user |-> fetchone(find_by_id(user_id)), acquired |-> 1, released |-> 1]

\* user_loader callback: the user row of the id kept in the session cookie
load_user(user_id, db) ==
    IF ~get_db_connection(db)
    THEN [user |-> {}, acquired |-> 0, released |-> 0]
    ELSE IF db = "error"
         THEN [user |-> {}, acquired |-> 1, released |-> 1]
         ELSE [user |-> fetchone(find_by_id(user_id)), acquired |-> 1, released |-> 1]

\* flask_login.current_user: AnonymousUserMixin unless the cookie carries a
\* user id that load_user resolves
current_user(s, db) ==
    IF session[s] = Anonymous
    THEN [user |-> {}, acquired |-> 0, released |-> 0]
    ELSE load_user(session[s], db)

\* the round trip load_user makes for cookie s: none without a user id in it
Lookups(s) == IF session[s] = Anonymous THEN {"none"} ELSE DbOutcomes

is_authenticated(cu) == cu.user # {}

UserId(cu) == IF cu.user = {} THEN Anonymous ELSE (CHOOSE r \in cu.user : TRUE).id

\* a route left without its decorator
login_required_missing(cu) == TRUE

\* @login_required
login_required(cu) == is_authenticated(cu)

(* --------------------------- request bookkeeping ---------------------- *)
\* the request completed last: route, cookie, the user current_user resolved
\* to, the response, the upstream calls made for it, and its inputs
Completed(op, sid, user, resp, calls, args) ==
    [op |-> op, sid |-> sid, user |-> user, resp |-> resp, calls |-> calls, args |-> args]

Idle == [busy |-> FALSE, username |-> "", email |-> "", password |-> "", taken |-> FALSE]

InFlight == Cardinality({w \in Workers : pending[w].busy})

(* ------------------------------- /login ------------------------------- *)
\* lines 145-164: the credential check on an open connection
authenticate(username, password) ==
    LET user_data == fetchone(find_by_username(username)) IN
    IF user_data = {}
    THEN [resp |-> render_template("login.html", MSG_BAD_CREDENTIALS), user |-> Anonymous]
    ELSE LET row == CHOOSE r \in user_data : TRUE
             ok == check_password_hash(row.password_hash, password) IN
         CASE ok = "true" -> [resp |-> redirect("->index", NoText), user |-> row.id]
           [] ok = "false" ->
               [resp |-> render_template("login.html", MSG_BAD_CREDENTIALS), user |-> Anonymous]
           [] OTHER ->
               [resp |-> render_template("login.html", MSG_LOGIN_FAILED), user |-> Anonymous]

\* lines 132-166 after current_user is resolved; connects tells whether the
\* handler called get_db_connection()
login_view(authenticated, method, username, password, db) ==
    IF authenticated
    THEN [resp |-> redirect("->index", NoText), user |-> Anonymous, connects |-> FALSE,
          acquired |-> 0, released |-> 0]
    ELSE IF method # "POST"
    THEN [resp |-> render_template("login.html", NoText), user |-> Anonymous,
          connects |-> FALSE, acquired |-> 0, released |-> 0]
    ELSE IF ~get_db_connection(db)
    THEN [resp |-> render_template("login.html", MSG_DB_FAILED), user |-> Anonymous,
          connects |-> TRUE, acquired |-> 0, released |-> 0]
    ELSE LET a == authenticate(username, password) IN
         [resp |-> a.resp, user |-> a.user, connects |-> TRUE,
          acquired |-> 1, released |-> 1]

login(s, method, username, password, lu, db) ==
    LET cu == current_user(s, lu)
        v == login_view(is_authenticated(cu), method, username, password, db)
    IN /\ (db = NoConn) <=> ~v.connects
       /\ session' = IF v.user # Anonymous THEN [session EXCEPT ![s] = v.user] ELSE session
       /\ cred' = IF /\ ~is_authenticated(cu) /\ method = "POST" /\ get_db_connection(db)
                       /\ db = "ok" /\ <<username, password>> \in registered
                    THEN [cred EXCEPT ![s] = username] ELSE cred
       /\ openConns' = openConns + cu.acquired - cu.released + v.acquired - v.released
       /\ last' = Completed("login", s, UserId(cu), v.resp, <<>>,
                            [method |-> method, username |-> username,
                             password |-> password, lu |-> lu, db |-> db])
       /\ UNCHANGED <<users, nextId, pending, AMAP_SERVICE_KEY, registered>>

(* ------------------------------- /logout ------------------------------ *)
\* a logout that answers without calling logout_user()
logout_view_keeps_session(cu) ==
    IF login_required(cu)
    THEN [resp |-> redirect("->login", MSG_LOGGED_OUT), logout_user |-> FALSE]
    ELSE [resp |-> unauthorized, logout_user |-> FALSE]

\* lines 231-236
logout_view(cu) ==
    IF login_required(cu)
    THEN [resp |-> redirect("->login", MSG_LOGGED_OUT), logout_user |-> TRUE]
    ELSE [resp |-> unauthorized, logout_user |-> FALSE]

logout(s, lu) ==
    LET cu == current_user(s, lu)
        v == logout_view(cu)
    IN /\ session' = IF v.logout_user THEN [session EXCEPT ![s] = Anonymous] ELSE session
       /\ cred' = IF v.logout_user THEN [cred EXCEPT ![s] = None] ELSE cred
       /\ openConns' = openConns + cu.acquired - cu.released
       /\ last' = Completed("logout", s, UserId(cu), v.resp, <<>>,
                            [lu |-> lu,
                             again |-> /\ last.op = "logout" /\ last.sid = s
                                       /\ last.user # Anonymous])
       /\ UNCHANGED <<users, nextId, pending, AMAP_SERVICE_KEY, registered>>

(* ------------------------------ /register ----------------------------- *)
\* lines 180-190: the first failing rule decides, NoText when all pass
validate(username, email, password, confirm_password) ==
    IF ~Truthy(username) \/ ~Truthy(email) \/ ~Truthy(password) THEN MSG_FILL_ALL
    ELSE IF password # confirm_password THEN MSG_CONFIRM_MISMATCH
    ELSE IF Len(password) < MinPasswordLen THEN MSG_PASSWORD_SHORT
    ELSE NoText

\* lines 170-205: everything up to and including the existence SELECT;
\* proceed means the handler goes on to the INSERT with its connection open
register_view(authenticated, method, username, email, password, confirm_password, db) ==
    LET error == validate(username, email, password, confirm_password)
        page(flash, connects) ==
            [resp |-> render_template("register.html", flash), proceed |-> FALSE,
             connects |-> connects, acquired |-> 0, released |-> 0]
    IN IF authenticated
       THEN [resp |-> redirect("->index", NoText), proceed |-> FALSE,
             connects |-> FALSE, acquired |-> 0, released |-> 0]
       ELSE IF method # "POST" THEN page(NoText, FALSE)
       ELSE IF error # NoText THEN page(error, FALSE)
       ELSE IF ~get_db_connection(db) THEN page(MSG_DB_FAILED, TRUE)
       ELSE IF fetchone(find_by_username_or_email(username, email)) # {}
       THEN [resp |-> render_template("register.html", MSG_EXISTS), proceed |-> FALSE,
             connects |-> TRUE, acquired |-> 1, released |-> 1]
       ELSE [resp |-> render_template("register.html", NoText), proceed |-> TRUE,
             connects |-> TRUE, acquired |-> 1, released |-> 0]

\* what the properties of /register speak of, taken from the request itself:
\* taken, the name or address was in the table when the SELECT ran; raced, it
\* was when the INSERT ran; changed, the table differs after the request
RegisterArgs(method, username, email, password, confirm_password, db, taken, raced, changed) ==
    [method |-> method, username |-> username, email |-> email,
     valid |-> /\ Truthy(username) /\ Truthy(email) /\ Truthy(password)
               /\ password = confirm_password /\ Len(password) >= MinPasswordLen,
     db |-> db, taken |-> taken, raced |-> raced, changed |-> changed]

InTable(username, email) == \E r \in users : r.username = username \/ r.email = email

register(w, s, method, username, email, password, confirm_password, lu, db) ==
    LET cu == current_user(s, lu)
        v == register_view(is_authenticated(cu), method, username, email,
                           password, confirm_password, db)
    IN /\ ~pending[w].busy
       /\ nextId + InFlight <= MaxId
       /\ (db = NoConn) <=> ~v.connects
       /\ pending' = IF v.proceed
                     THEN [pending EXCEPT ![w] = [busy |-> TRUE, username |-> username,
                                                  email |-> email, password |-> password,
                                                  taken |-> InTable(username, email)]]
                     ELSE pending
       /\ openConns' = openConns + cu.acquired - cu.released + v.acquired - v.released
       /\ last' = IF v.proceed THEN last
                  ELSE Completed("register", s, UserId(cu), v.resp, <<>>,
                                 RegisterArgs(method, username, email, password,
                                              confirm_password, db,
                                              InTable(username, email), FALSE, FALSE))
       /\ UNCHANGED <<users, nextId, session, cred, AMAP_SERVICE_KEY, registered>>

\* lines 207-227: INSERT ... RETURNING id and COMMIT, or the except branch
register_insert(username, email, password, salt) ==
    IF UniqueViolation(username, email)
    THEN [rows |-> users, resp |-> render_template("register.html", MSG_REGISTER_FAILED),
          rollback |-> TRUE, released |-> 1]
    ELSE [rows |-> users \cup {[id |-> nextId, username |-> username, email |-> email,
                                password_hash |-> generate_password_hash(password, salt)]},
          resp |-> redirect("->login", MSG_REGISTERED), rollback |-> FALSE, released |-> 1]

Salts == {"s1"}

register_commit(w, salt) ==
    LET p == pending[w]
        v == register_insert(p.username, p.email, p.password, salt)
    IN /\ p.busy
       /\ users' = v.rows
       /\ nextId' = nextId + 1      \* nextval() is not undone by a rollback
       /\ pending' = [pending EXCEPT ![w] = Idle]
       /\ openConns' = openConns - v.released
       /\ last' = Completed("register", 0, Anonymous, v.resp, <<>>,
                            RegisterArgs("POST", p.username, p.email, p.password,
                                         p.password, "ok", p.taken,
                                         InTable(p.username, p.email), v.rows # users))
       /\ registered' = IF v.rows # users
                         THEN registered \cup {<<p.username, p.password>>} ELSE registered
       /\ UNCHANGED <<session, cred, AMAP_SERVICE_KEY>>

(* --------------------------- upstream gateway -------------------------- *)
\* what requests.get(url, params, timeout=10) and response.json() can yield
Upstream(transport, body, status, info, payload) ==
    [transport |-> transport, body |-> body, status |-> status, info |-> info,
     payload |-> payload]

\* no call was made
NoUpstream == Upstream("none", "-", "-", None, "-")

Upstreams ==
    { Upstream("timeout", "-", "-", None, "-"),          \* requests.get raises
      Upstream("ok", "garbage", "-", None, "-"),         \* response.json() raises
      Upstream("ok", "dict", "absent", None, "absent"),  \* JSON without 'status'
      Upstream("ok", "dict", "0", "INVALID_USER_KEY", "absent"),
      Upstream("ok", "dict", "0", None, "absent"),
      Upstream("ok", "dict", "1", "OK", "good"),
      Upstream("ok", "dict", "1", "OK", "empty"),
      Upstream("ok", "dict", "1", "OK", "bad"),
      Upstream("ok", "dict", "1", "OK", "absent") }

\* data.get('info', fallback)
info_or(up, fallback) == IF up.info = None THEN fallback ELSE up.info

\* lines 258-273: response.json() and the reading of its fields
geocode_parse(up) ==
    IF up.body # "dict" THEN Failure("JSONDecodeError")
    ELSE IF up.status = "absent" THEN Failure("KeyError")
    ELSE IF up.status = "1" /\ up.payload = "absent" THEN Failure("KeyError")
    ELSE IF up.status = "1" /\ up.payload # "empty"
    THEN IF up.payload = "good" THEN Success ELSE Failure("ValueError")
    ELSE Failure(info_or(up, "address resolution failed"))

\* the upstream call made outside the try block
geocode_result_uncaught(up) ==
    IF up.transport # "ok" THEN Response(500, "fault", NoText, NoText, "Timeout")
    ELSE geocode_parse(up)

\* lines 256-275: the try block and its except clause
geocode_result(up) ==
    IF up.transport # "ok" THEN Failure("Timeout") ELSE geocode_parse(up)

\* lines 298-316
reverse_geocode_result(up) ==
    IF up.transport # "ok" THEN Failure("Timeout")
    ELSE IF up.body # "dict" THEN Failure("JSONDecodeError")
    ELSE IF up.status = "absent" THEN Failure("KeyError")
    ELSE IF up.status = "1"
    THEN IF up.payload = "good" THEN Success ELSE Failure("KeyError")
    ELSE Failure(info_or(up, "reverse geocoding failed"))

\* lines 341-360
search_poi_result(up) ==
    IF up.transport # "ok" THEN Failure("Timeout")
    ELSE IF up.body # "dict" THEN Failure("JSONDecodeError")
    ELSE IF up.status = "absent" THEN Failure("KeyError")
    ELSE IF up.status = "1"
    THEN IF up.payload = "bad" THEN Failure("KeyError") ELSE Success
    ELSE Failure(info_or(up, "search failed"))

(* --------------------------- protected routes -------------------------- *)
NoCall(resp) == [resp |-> resp, calls |-> <<>>]

\* lines 240-275
geocode_view(address, up) ==
    IF ~Truthy(args_get(address)) THEN NoCall(ParamError(ERR_ADDRESS))
    ELSE IF AMAP_SERVICE_KEY = None THEN NoCall(Failure(ERR_NO_KEY))
    ELSE [resp |-> geocode_result(up), calls |-> <<up>>]

\* the presence check with "and" in place of "or"
reverse_geocode_view_and(lng, lat, up) ==
    IF ~Truthy(args_get(lng)) /\ ~Truthy(args_get(lat)) THEN NoCall(ParamError(ERR_COORDS))
    ELSE IF AMAP_SERVICE_KEY = None THEN NoCall(Failure(ERR_NO_KEY))
    ELSE [resp |-> reverse_geocode_result(up), calls |-> <<up>>]

\* lines 279-316
reverse_geocode_view(lng, lat, up) ==
    IF ~Truthy(args_get(lng)) \/ ~Truthy(args_get(lat)) THEN NoCall(ParamError(ERR_COORDS))
    ELSE IF AMAP_SERVICE_KEY = None THEN NoCall(Failure(ERR_NO_KEY))
    ELSE [resp |-> reverse_geocode_result(up), calls |-> <<up>>]

\* lines 320-360
search_poi_view(keywords, location, up) ==
    IF ~Truthy(args_get(keywords)) \/ ~Truthy(args_get(location))
    THEN NoCall(ParamError(ERR_PARAMS))
    ELSE IF AMAP_SERVICE_KEY = None THEN NoCall(Failure(ERR_NO_KEY))
    ELSE [resp |-> search_poi_result(up), calls |-> <<up>>]

\* a view function behind @login_required
protected(cu, view) == IF login_required(cu) THEN view ELSE NoCall(unauthorized)

\* one request to a protected route; up is the answer to the upstream call the
\* view makes, NoUpstream when it makes none
Serve(op, s, lu, view, params, up) ==
    LET cu == current_user(s, lu)
        v == protected(cu, view)
    IN /\ (up = NoUpstream) <=> (v.calls = <<>>)
       /\ openConns' = openConns + cu.acquired - cu.released
       /\ last' = Completed(op, s, UserId(cu), v.resp, v.calls, [params |-> params, lu |-> lu])
       /\ UNCHANGED <<users, nextId, session, pending, AMAP_SERVICE_KEY, cred, registered>>

geocode(s, address, lu, up) ==
    Serve("geocode", s, lu, geocode_view(address, up), <<address>>, up)

reverse_geocode(s, lng, lat, lu, up) ==
    Serve("reverse_geocode", s, lu, reverse_geocode_view(lng, lat, up), <<lng, lat>>, up)

search_poi(s, keywords, location, lu, up) ==
    Serve("search_poi", s, lu, search_poi_view(keywords, location, up),
          <<keywords, location>>, up)

(* ------------------------- /health and bootstrap ----------------------- *)
\* lines 363-374: the connection is only tested for truth; it is closed when
\* the runtime finalises the unreferenced object (finalised), never by the handler
health_check_view(db, finalised) ==
    IF get_db_connection(db)
    THEN [database |-> "connected", acquired |-> 1, released |-> IF finalised THEN 1 ELSE 0]
    ELSE [database |-> "disconnected", acquired |-> 0, released |-> 0]

health_check(db, finalised) ==
    LET v == health_check_view(db, finalised)
    IN /\ openConns < MaxOpen
       /\ openConns' = openConns + v.acquired - v.released
       /\ last' = Completed("health", 0, Anonymous,
                            Response(OK, "json", NoText, NoText, NoText), <<>>,
                            [db |-> db, database |-> v.database])
       /\ UNCHANGED <<users, nextId, session, pending, AMAP_SERVICE_KEY, cred, registered>>

\* lines 90-117: CREATE TABLE IF NOT EXISTS leaves an existing table alone
init_db_view(db) ==
    IF ~get_db_connection(db) THEN [acquired |-> 0, released |-> 0]
    ELSE [acquired |-> 1, released |-> 1]

init_db(db) ==
    LET v == init_db_view(db)
    IN /\ openConns' = openConns + v.acquired - v.released
       /\ last' = Completed("init_db", 0, Anonymous,
                            Response(OK, "-", NoText, NoText, NoText), <<>>, [db |-> db])
       /\ UNCHANGED <<users, nextId, session, pending, AMAP_SERVICE_KEY, cred, registered>>

(* ---------------------------- specification --------------------------- *)
\* the process after import: init_db() has run, no cookie carries a user
Init ==
    /\ users = {}
    /\ nextId = 1
    /\ session = [s \in Sessions |-> Anonymous]
    /\ cred = [s \in Sessions |-> None]
    /\ pending = [w \in Workers |-> Idle]
    /\ openConns = 0
    /\ AMAP_SERVICE_KEY \in {None, "key"}
    /\ last = Completed("init_db", 0, Anonymous,
                        Response(OK, "-", NoText, NoText, NoText), <<>>, [db |-> "ok"])
    /\ registered = {}

\* the persisted table a restarted process finds: alice and bob registered
\* in that order by an earlier run (CREATE TABLE IF NOT EXISTS keeps the rows)
Seeded ==
    {[id |-> 1, username |-> "alice", email |-> "a@x",
      password_hash |-> generate_password_hash("secret1", "s1")],
     [id |-> 2, username |-> "bob", email |-> "b@x",
      password_hash |-> generate_password_hash("secret2", "s1")]}

InitSeeded ==
    /\ users = Seeded
    /\ nextId = 3
    /\ session = [s \in Sessions |-> Anonymous]
    /\ cred = [s \in Sessions |-> None]
    /\ pending = [w \in Workers |-> Idle]
    /\ openConns = 0
    /\ AMAP_SERVICE_KEY \in {None, "key"}
    /\ last = Completed("init_db", 0, Anonymous,
                        Response(OK, "-", NoText, NoText, NoText), <<>>, [db |-> "ok"])
    /\ registered = {<<"alice", "secret1">>, <<"bob", "secret2">>}

Login == \E s \in Sessions, f \in LoginForms, db \in ConnOutcomes \cup {NoConn} :
            \E lu \in Lookups(s) : login(s, f.method, f.username, f.password, lu, db)

Logout == \E s \in Sessions : \E lu \in Lookups(s) : logout(s, lu)

Register == \E w \in Workers, s \in Sessions, f \in RegisterForms,
               db \in ConnOutcomes \cup {NoConn} :
               \E lu \in Lookups(s) :
                  register(w, s, f.method, f.username, f.email, f.password,
                           f.confirm_password, lu, db)

\* requests to /register served one after the other, by the first worker
RegisterAlone == \E s \in Sessions, f \in RegisterForms, db \in ConnOutcomes \cup {NoConn} :
                    \E lu \in Lookups(s) :
                       register(1, s, f.method, f.username, f.email, f.password,
                                f.confirm_password, lu, db)

RegisterCommit == \E w \in Workers, salt \in Salts : register_commit(w, salt)

Geocode == \E s \in Sessions, address \in QueryValues, up \in Upstreams \cup {NoUpstream} :
              \E lu \in Lookups(s) : geocode(s, address, lu, up)

ReverseGeocode == \E s \in Sessions, lng \in QueryValues, lat \in QueryValues,
                     up \in Upstreams \cup {NoUpstream} :
                     \E lu \in Lookups(s) : reverse_geocode(s, lng, lat, lu, up)

SearchPoi == \E s \in Sessions, keywords \in QueryValues, location \in QueryValues,
                up \in Upstreams \cup {NoUpstream} :
                \E lu \in Lookups(s) : search_poi(s, keywords, location, lu, up)

HealthCheck == \E db \in ConnOutcomes, finalised \in BOOLEAN : health_check(db, finalised)

InitDb == \E db \in ConnOutcomes : init_db(db)

\* every handler, any interleaving
Next ==
    \/ Login
    \/ Logout
    \/ Register
    \/ RegisterCommit
    \/ Geocode
    \/ ReverseGeocode
    \/ SearchPoi
    \/ HealthCheck
    \/ InitDb

Spec == Init /\ [][Next]_vars

\* a deployment whose service key is configured
InitKeyed == Init /\ AMAP_SERVICE_KEY = "key"

\* the credential store under concurrent registration
NextStore ==
    \/ Register
    \/ RegisterCommit
    \/ HealthCheck
    \/ InitDb

SpecStore == InitKeyed /\ [][NextStore]_vars

\* accounts: registration followed by sessions on the registered users
NextAccount ==
    \/ RegisterAlone
    \/ RegisterCommit
    \/ Login
    \/ Logout

SpecAccount == InitKeyed /\ [][NextAccount]_vars

\* the session-gated proxy over a populated store
NextProxy ==
    \/ Login
    \/ Logout
    \/ Geocode
    \/ ReverseGeocode
    \/ SearchPoi

SpecProxy == InitSeeded /\ [][NextProxy]_vars

(* ------------------------------ properties ---------------------------- *)
ProtectedOps == {"geocode", "reverse_geocode", "search_poi"}

SessionOps == ProtectedOps \cup {"login", "logout"}

\* a required query parameter is absent or empty
MissingParam(params) == \E i \in DOMAIN params : ~Truthy(params[i])

\* C1: a request to /geocode, /reverse_geocode or /search_poi that resolves to
\* no user gets the redirect to the login page, whatever its query parameters,
\* and no upstream call is made for it.
C1_AnonymousIsTurnedAway ==
    (last.op \in ProtectedOps /\ last.user = Anonymous)
        => (last.resp = unauthorized /\ last.calls = <<>>)

C1_Witness ==
    /\ last.op = "search_poi"
    /\ last.user = Anonymous
    /\ last.args.params = <<None, "v">>
    /\ last.resp = unauthorized
    /\ last.calls = <<>>

\* C2: an authenticated request to a protected route with a required parameter
\* absent or empty gets HTTP 400 with a body {error: ...} and no upstream call.
C2_MissingParamIs400 ==
    (last.op \in ProtectedOps /\ last.user # Anonymous /\ MissingParam(last.args.params))
        => /\ last.resp.code = BadRequest
           /\ last.resp.body = "json"
           /\ last.resp.error \in {ERR_ADDRESS, ERR_COORDS, ERR_PARAMS}
           /\ last.resp.success = NoText
           /\ last.calls = <<>>

C2_Witness ==
    /\ last.op = "reverse_geocode"
    /\ last.user # Anonymous
    /\ last.args.params = <<"v", "">>
    /\ last.resp.code = BadRequest
    /\ last.calls = <<>>

\* the GatewayResult of one upstream answer, by the definitions of the design:
\* Success is a well-formed answer with status "1" (for forward geocoding, with
\* a candidate); UpstreamRejected a well-formed answer that reports failure;
\* anything else is a TransportFailure
Succeeded(op, up) ==
    /\ up.transport = "ok" /\ up.body = "dict" /\ up.status = "1"
    /\ \/ up.payload = "good"
       \/ op = "search_poi" /\ up.payload \in {"empty", "absent"}

Rejected(op, up) ==
    /\ up.transport = "ok" /\ up.body = "dict"
    /\ \/ up.status = "0"
       \/ op = "geocode" /\ up.status = "1" /\ up.payload = "empty"

Fallback(op) ==
    CASE op = "geocode" -> "address resolution failed"
      [] op = "reverse_geocode" -> "reverse geocoding failed"
      [] OTHER -> "search failed"

\* C6: an authenticated request with all parameters present gets one JSON
\* response with HTTP 200 after at most one upstream call: without a service
\* key no call and {success: false}; otherwise exactly one call, success true
\* exactly when the answer is a Success, and {success: false, error: message}
\* for a rejection (the provider's message or the fallback) and for a
\* transport failure; never an unhandled fault.
C6_EveryOutcomeIsAnEnvelope ==
    (last.op \in ProtectedOps /\ last.user # Anonymous /\ ~MissingParam(last.args.params))
        => /\ last.resp.body = "json"
           /\ last.resp.code = OK
           /\ last.resp.success \in {"true", "false"}
           /\ IF AMAP_SERVICE_KEY = None
              THEN last.calls = <<>> /\ last.resp = Failure(ERR_NO_KEY)
              ELSE /\ Len(last.calls) = 1
                   /\ (last.resp.success = "true") <=> Succeeded(last.op, last.calls[1])
                   /\ Succeeded(last.op, last.calls[1]) => last.resp = Success
                   /\ Rejected(last.op, last.calls[1])
                        => last.resp = Failure(info_or(last.calls[1], Fallback(last.op)))
                   /\ ~Succeeded(last.op, last.calls[1])
                        => last.resp.success = "false" /\ last.resp.error # NoText

C6_Witness ==
    /\ last.op = "geocode"
    /\ last.user # Anonymous
    /\ Len(last.calls) = 1
    /\ last.calls[1].transport = "timeout"
    /\ last.resp = Failure("Timeout")

\* C5: a rejected login POST gets the same response whether the username is
\* unknown or known with a password that does not verify, for every submitted
\* password, the absent one included.
C5_RejectionHidesTheUsername ==
    (/\ last.op = "login" /\ last.args.method = "POST" /\ last.user = Anonymous
     /\ last.resp.body = "login.html"
     /\ find_by_username(last.args.username) # {})
        => last.resp = login_view(FALSE, "POST", "carol", last.args.password,
                                  last.args.db).resp

\* after a logout: the cookie and the answer
C9_State ==
    last.op = "logout"
        => /\ last.resp.body = "->login"
           /\ last.user # Anonymous
                => /\ session[last.sid] = Anonymous
                   /\ last.resp = redirect("->login", MSG_LOGGED_OUT)
           /\ last.args.lu = "none"
                => /\ session[last.sid] = Anonymous
                   /\ last.resp = unauthorized
           /\ last.args.again
                => /\ last.args.lu = "none"
                   /\ last.user = Anonymous

\* a logout step: what it leaves alone
C9_Step ==
    last'.op = "logout"
        => /\ users' = users
           /\ \A s \in Sessions : s # last'.sid => session'[s] = session[s]

\* C9: a logout from an authenticated session leaves the cookie without a user;
\* a logout on a cookie without a user (a second logout in particular) leaves it
\* so and answers with the redirect to the login page, not with an error; a
\* logout changes neither the table nor any other cookie.
C9_LogoutIsIdempotent == []C9_State /\ [][C9_Step]_vars

C9_Witness ==
    /\ last.op = "logout"
    /\ last.args.again
    /\ last.args.lu = "none"
    /\ session[last.sid] = Anonymous
    /\ last.resp = unauthorized

\* what each cookie resolves to, and what the last request resolved to
C10_State ==
    /\ \A s \in Sessions : \A lu \in Lookups(s) :
          LET cu == current_user(s, lu) IN
          IF lu = "ok" /\ cred[s] # None
          THEN \E r \in users : /\ cu.user = {r}
                                /\ r.id = session[s]
                                /\ r.username = cred[s]
                                /\ \E c \in registered : c[1] = cred[s]
          ELSE ~is_authenticated(cu)
    /\ \A uid \in 1..MaxId :
          find_by_id(uid) = {} => \A db \in DbOutcomes : ~is_authenticated(load_user(uid, db))
    /\ last.op \in SessionOps
          => /\ last.resp.body # "fault"
             /\ last.args.lu # "ok" => last.user = Anonymous
             /\ last.user # Anonymous => \E r \in users : r.id = last.user
             /\ (last.user # Anonymous /\ last.op # "logout")
                   => \E r \in users : r.id = last.user /\ r.username = cred[last.sid]

\* a request touches the cookie it came with and no other
C10_Step ==
    \A s \in Sessions : s # last'.sid => session'[s] = session[s] /\ cred'[s] = cred[s]

\* C10: a cookie resolves to a user only while a credential check succeeded on
\* it with no logout since, and only to the existing row of that user; a cookie
\* whose user id cannot be read back (table unreachable, query error, no row)
\* resolves to no user for that request; a request changes no cookie but its own.
C10_AuthenticatedMeansVerified == []C10_State /\ [][C10_Step]_vars

C10_Witness ==
    /\ last.op = "geocode"
    /\ last.args.lu = "down"
    /\ session[last.sid] # Anonymous
    /\ cred[last.sid] = "alice"
    /\ last.user = Anonymous
    /\ last.resp = unauthorized
    /\ \E s \in Sessions : s # last.sid /\ cred[s] = "bob" /\ session[s] = 2

\* no two rows share a username or an email
UniqueUsers ==
    \A r1, r2 \in users :
        (r1.username = r2.username \/ r1.email = r2.email \/ r1.id = r2.id) => r1 = r2

\* C3 as stated: every request to /register whose username or email is in the
\* table gets the "already exists" message and leaves the table unchanged.
C3_TakenIsAlwaysConflict ==
    (last.op = "register" /\ last.args.taken)
        => /\ last.resp = render_template("register.html", MSG_EXISTS)
           /\ ~last.args.changed

\* C3 amended: a register POST from an anonymous session whose fields pass
\* validation, made with the store reachable, whose username or email is in the
\* table when the existence SELECT runs, gets the "already exists" message; a
\* request whose username or email is taken leaves the table unchanged in
\* every case, whichever rule rejects it.
C3_ValidTakenIsConflict ==
    /\ (/\ last.op = "register" /\ last.args.taken /\ last.user = Anonymous
        /\ last.args.method = "POST" /\ last.args.valid /\ last.args.db = "ok")
          => last.resp = render_template("register.html", MSG_EXISTS)
    /\ (last.op = "register" /\ (last.args.taken \/ last.args.raced))
          => ~last.args.changed

C3_Witness ==
    /\ last.op = "register"
    /\ last.args.taken
    /\ last.args.username = "alice"
    /\ last.args.email = "b@x"
    /\ last.args.valid
    /\ last.resp.flash = MSG_EXISTS
    /\ \E r \in users : r.username = "alice" /\ r.email = "a@x"
    /\ Cardinality(users) = 1

\* C4: under concurrent registration no two rows ever share a username or an
\* email, and the request whose INSERT fails adds no row and is answered with
\* the same "already exists" outcome as a conflict found by the SELECT.
C4_RaceLoserSeesConflict ==
    /\ UniqueUsers
    /\ (last.op = "register" /\ last.args.raced)
          => /\ ~last.args.changed
             /\ last.resp = render_template("register.html", MSG_EXISTS)

\* C8: every connection an operation opens is closed before it completes; the
\* only connections open are those of requests still in flight.
C8_NoConnectionOutlivesItsRequest == openConns = InFlight

\* C7: once register(u, e, p) has succeeded, a login POST with (u, p) from a
\* session that resolves to no user, with the store reachable, redirects to the
\* index and leaves in the cookie the id of the row find_by_username(u) returns;
\* every cookie logged in this way resolves to that row on later requests.
C7_RegisterThenLogin ==
    /\ (/\ last.op = "login" /\ last.args.method = "POST" /\ last.user = Anonymous
        /\ last.args.db = "ok"
        /\ <<last.args.username, last.args.password>> \in registered)
          => /\ last.resp = redirect("->index", NoText)
             /\ \E r \in users : /\ find_by_username(last.args.username) = {r}
                                 /\ session[last.sid] = r.id
    /\ \A s \in Sessions :
          cred[s] # None
             => /\ find_by_username(cred[s]) # {}
                /\ current_user(s, "ok").user = find_by_username(cred[s])

C7_Witness ==
    /\ last.op = "login"
    /\ last.user = Anonymous
    /\ last.args.username = "bob"
    /\ last.args.password = "secret2"
    /\ last.resp = redirect("->index", NoText)
    /\ session[last.sid] = 2
    /\ \E r \in users : r.id = 2 /\ r.username = "bob"
    /\ \E r \in users : r.id = 1 /\ r.username = "alice"

\* the populated table of SpecProxy is a table registration produces
SeededIsReachable == users = Seeded /\ nextId = 3 /\ InFlight = 0

====
